---- MODULE Spec2Model ----
(***************************************************************************)
(* block_model_utils: a dense 3D grid of optional blocks (BlockModel),     *)
(* its constructors (from_indexed, from_unindexed, the two csv loaders),   *)
(* addressed access (block, block_mut) and the three dependence            *)
(* strategies (SquarePreds, SquareSuccs, SquareAdj).                       *)
(*                                                                         *)
(* Representation.                                                         *)
(*   Option<B>          the sequence <<>> (None) or <<b>> (Some(b))        *)
(*   Array3<Option<B>>  [shape |-> <<ni, nj, nk>>, data |-> f], f a        *)
(*                      function from the indices whose cell is Some to    *)
(*                      the payload; every other index of the shape is     *)
(*                      None                                               *)
(*   f32                the whole-number f32 values are modelled by the    *)
(*                      integer they denote; every arithmetic result is    *)
(*                      rounded to a 24-bit significand, to nearest, ties  *)
(*                      to even, as IEEE 754 binary32 does                 *)
(***************************************************************************)
EXTENDS Integers, Sequences, FiniteSets, TLC

VARIABLES pc, ctor, inBlocks, inInds, genIndsCalled, assigned, mdl, res, file, loader, rows, csvBlocks, csvInds

vars == <<pc, ctor, inBlocks, inInds, genIndsCalled, assigned, mdl, res, file, loader, rows, csvBlocks, csvInds>>

(***************************************************************************)
(* Bounds of the model.                                                    *)
(***************************************************************************)
\* longest batch handed to a constructor
MaxBlocks == 2
\* number of distinct payloads a from_indexed batch draws from
NumPayloads == 2
\* largest index component of the batches from_indexed is called on
MaxIdx == 1
\* longest axis of the models that are read and queried
MaxDim == 3
\* largest number of cells of a model that block_mut writes to
MaxCells == 9
\* longest csv file, in rows
MaxRows == 2

\* width of the f32 significand (with the implicit bit)
F32_MANTISSA_DIGITS == 24

(***************************************************************************)
(* Value types (block.rs).                                                 *)
(***************************************************************************)
BlockCoordinates(x, y, z) == [x |-> x, y |-> y, z |-> z]

BlockIndex(i, j, k) == [i |-> i, j |-> j, k |-> k]

BlockSize(xs, ys, zs) == [x_size |-> xs, y_size |-> ys, z_size |-> zs]

\* BlockIndex::default()
DefaultIndex == BlockIndex(0, 0, 0)

\* a payload type implementing BlockInterface: its identity, and the three
\* attributes the interface exposes
Block(id, coords, size, index) == [id |-> id, coords |-> coords, size |-> size, index |-> index]

\* BlockInterface::set_index on such a payload
set_index(b, ind) == [b EXCEPT !.index = ind]

None == <<>>

Some(b) == <<b>>

(***************************************************************************)
(* f32 arithmetic on whole numbers.                                        *)
(***************************************************************************)
Pow2(n) == 2 ^ n

\* the spacing of the f32 values around the non-negative integer n (1 below 2^24)
RECURSIVE Ulp(_)
Ulp(n) == IF n < Pow2(F32_MANTISSA_DIGITS) THEN 1 ELSE 2 * Ulp(n \div 2)

\* p / q (p >= 0, q > 0) rounded to the nearest integer, ties to even
RoundHalfEven(p, q) ==
    LET f == p \div q
        r == p % q
    IN  IF 2 * r < q THEN f
        ELSE IF 2 * r > q THEN f + 1
        ELSE IF f % 2 = 0 THEN f ELSE f + 1

\* the f32 nearest to the integer n >= 0
F32Round(n) == RoundHalfEven(n, Ulp(n)) * Ulp(n)

\* a - b in f32, for a >= b
F32Sub(a, b) == F32Round(a - b)

\* the least s with a * 2^s / b >= 2^23: the scale at which the quotient's
\* significand has its 24 bits
RECURSIVE QuotShift(_, _, _)
QuotShift(a, b, s) ==
    IF (a * Pow2(s)) \div b >= Pow2(F32_MANTISSA_DIGITS - 1) THEN s ELSE QuotShift(a, b, s + 1)

\* a / b in f32, for a >= 0 and b > 0: the value num / 2^shift
F32Div(a, b) ==
    IF a = 0 THEN [num |-> 0, shift |-> 0]
    ELSE IF a \div b >= Pow2(F32_MANTISSA_DIGITS - 1)
         THEN [num |-> RoundHalfEven(a, b * Ulp(a \div b)) * Ulp(a \div b), shift |-> 0]
         ELSE LET s == QuotShift(a, b, 0)
              IN  [num |-> RoundHalfEven(a * Pow2(s), b), shift |-> s]

\* f32::fract() == 0.0
FractIsZero(q) == q.num % Pow2(q.shift) = 0

\* `q as usize` of a non-negative f32: truncation
AsUsize(q) == q.num \div Pow2(q.shift)

Min(a, b) == IF a < b THEN a ELSE b

Max(a, b) == IF a > b THEN a ELSE b

(***************************************************************************)
(* BlockModel: the array and its constructors.                             *)
(***************************************************************************)
\* Array3::from_elem(shape, None)
FromElem(shape) == [shape |-> shape, data |-> <<>>]

\* the state before any model exists
NoModel == FromElem(<<0, 0, 0>>)

InGrid(arr, ind) ==
    /\ ind.i < arr.shape[1]
    /\ ind.j < arr.shape[2]
    /\ ind.k < arr.shape[3]

\* the array with cell ind assigned opt
SetCell(arr, ind, opt) ==
    IF opt = None
    THEN [arr EXCEPT !.data = [x \in (DOMAIN arr.data) \ {ind} |-> arr.data[x]]]
    ELSE [arr EXCEPT !.data = (ind :> opt[1]) @@ arr.data]

\* BlockModel::block: &self.blocks[[i, j, k]]
block(arr, ind) == IF ind \in DOMAIN arr.data THEN Some(arr.data[ind]) ELSE None

\* the largest element of a finite set of numbers
SetMax(S) == CHOOSE x \in S : \A y \in S : y <= x

\* the fold of from_indexed over the indices, from (0, 0, 0): (max_i, max_j, max_k)
MaxInds(inds) ==
    <<SetMax({0} \cup {inds[n].i : n \in 1..Len(inds)}),
      SetMax({0} \cup {inds[n].j : n \in 1..Len(inds)}),
      SetMax({0} \cup {inds[n].k : n \in 1..Len(inds)})>>

\* the write that keeps a cell's first occupant
PopulateFirstWins(arr, b, ind) ==
    IF ind \in DOMAIN arr.data THEN arr ELSE SetCell(arr, ind, Some(b))

\* one step of the populate loop: block_arr[[i, j, k]] = Some(b) for pair (b, ind)
PopulateStep(arr, b, ind) == SetCell(arr, ind, Some(b))

\* blocks.into_iter().zip(inds).for_each(..): the pairs from position n on, in
\* order. The indexing block_arr[[i, j, k]] is bounds-checked; the shape is one
\* more than the maxima of the indices, so the check never fails.
RECURSIVE Populate(_, _, _, _)
Populate(arr, blocks, inds, n) ==
    IF n > Min(Len(blocks), Len(inds)) THEN arr
    ELSE IF ~InGrid(arr, inds[n]) THEN arr
    ELSE Populate(PopulateStep(arr, blocks[n], inds[n]), blocks, inds, n + 1)

\* BlockModel::from_indexed
from_indexed(blocks, inds) ==
    LET m == MaxInds(inds)
    IN  Populate(FromElem(<<m[1] + 1, m[2] + 1, m[3] + 1>>), blocks, inds, 1)

\* f32::MAX, the start of the origin fold (larger than every modelled coordinate)
F32Max == Pow2(30)

\* the fold of from_unindexed over the first n blocks: (min_x, min_y, min_z)
RECURSIVE Origin(_, _)
Origin(blocks, n) ==
    IF n = 0 THEN BlockCoordinates(F32Max, F32Max, F32Max)
    ELSE LET o == Origin(blocks, n - 1)
             c == blocks[n].coords
         IN  BlockCoordinates(Min(o.x, c.x), Min(o.y, c.y), Min(o.z, c.z))

\* the dims check without the comparison of the tail with the head
DimsHeadOnly(blocks) == IF Len(blocks) = 0 THEN None ELSE Some(blocks[1].size)

\* dims of from_unindexed: Some(head.size()) when every block has the head's size
Dims(blocks) ==
    IF Len(blocks) = 0 THEN None
    ELSE IF \A n \in 2..Len(blocks) : blocks[1].size = blocks[n].size
         THEN Some(blocks[1].size)
         ELSE None

\* the three quotients gen_inds computes for one block
Quotients(b, origin, block_size) ==
    [i |-> F32Div(F32Sub(b.coords.x, origin.x), block_size.x_size),
     j |-> F32Div(F32Sub(b.coords.y, origin.y), block_size.y_size),
     k |-> F32Div(F32Sub(b.coords.z, origin.z), block_size.z_size)]

\* the assert! of gen_inds for one block
Aligned(b, origin, block_size) ==
    LET q == Quotients(b, origin, block_size)
    IN  FractIsZero(q.i) /\ FractIsZero(q.j) /\ FractIsZero(q.k)

\* BlockModel::gen_inds: None when the assert! fails for some block
gen_inds(blocks, origin, block_size) ==
    IF \A n \in 1..Len(blocks) : Aligned(blocks[n], origin, block_size)
    THEN Some([n \in 1..Len(blocks) |->
                 LET q == Quotients(blocks[n], origin, block_size)
                 IN  BlockIndex(AsUsize(q.i), AsUsize(q.j), AsUsize(q.k))])
    ELSE None

\* BlockModel::from_unindexed: how it ends, whether it reached gen_inds, the
\* calls of set_index it made and the model it built
from_unindexed(blocks) ==
    LET origin == Origin(blocks, Len(blocks))
        dims == Dims(blocks)
    IN  IF dims = None
        THEN [end |-> "panic_size", gen_inds_called |-> FALSE, assigned |-> <<>>,
              mdl |-> NoModel]
        ELSE LET inds == gen_inds(blocks, origin, dims[1])
             IN  IF inds = None
                 THEN [end |-> "panic_misaligned", gen_inds_called |-> TRUE,
                       assigned |-> <<>>, mdl |-> NoModel]
                 ELSE [end |-> "built", gen_inds_called |-> TRUE, assigned |-> inds[1],
                       mdl |-> from_indexed(
                                  [n \in 1..Len(blocks) |-> set_index(blocks[n], inds[1][n])],
                                  inds[1])]

(***************************************************************************)
(* Inputs.                                                                 *)
(***************************************************************************)
SeqsUpTo(S, n) == UNION {[1..m -> S] : m \in 0..n}

IndexVals == {BlockIndex(i, j, k) : i \in 0..MaxIdx, j \in 0..MaxIdx, k \in 0..MaxIdx}

UnitSize == BlockSize(1, 1, 1)

\* the payloads of a pre-indexed batch: told apart by their identity only
Payload(id) == Block(id, BlockCoordinates(0, 0, 0), UnitSize, DefaultIndex)

IndexedPayloads == {Payload(id) : id \in 1..NumPayloads}

\* f32 coordinates: small ones, and whole numbers above 2^24 where the f32
\* spacing is 2
XVals == {0, 1, 16777218, 25165826}

YVals == {0, 1}

ZVals == {0, 1}

SizeVals == {BlockSize(1, 1, 1), BlockSize(3, 1, 1), BlockSize(1, 2, 1), BlockSize(1, 1, 2)}

UnindexedPayloads ==
    {Block(0, BlockCoordinates(x, y, z), s, DefaultIndex) :
        x \in XVals, y \in YVals, z \in ZVals, s \in SizeVals}

(***************************************************************************)
(* The constructors as steps.                                              *)
(***************************************************************************)
NoCsv ==
    /\ file = [open_ok |-> TRUE, rows |-> <<>>]
    /\ loader = "none"
    /\ rows = <<>>
    /\ csvBlocks = <<>>
    /\ csvInds = <<>>

InitStart ==
    /\ pc = "start"
    /\ ctor = "none"
    /\ inBlocks = <<>>
    /\ inInds = <<>>
    /\ genIndsCalled = FALSE
    /\ assigned = <<>>
    /\ mdl = NoModel
    /\ res = <<>>
    /\ NoCsv

\* a call of from_indexed on the batch (blocks, inds)
CallFromIndexed(blocks, inds) ==
    /\ ctor' = "from_indexed"
    /\ inBlocks' = blocks
    /\ inInds' = inds
    /\ genIndsCalled' = FALSE
    /\ assigned' = <<>>
    /\ mdl' = from_indexed(blocks, inds)
    /\ pc' = "built"
    /\ res' = <<>>

\* a call of from_unindexed on the batch blocks
CallFromUnindexed(blocks) ==
    LET r == from_unindexed(blocks)
    IN  /\ ctor' = "from_unindexed"
        /\ inBlocks' = blocks
        /\ inInds' = <<>>
        /\ genIndsCalled' = r.gen_inds_called
        /\ assigned' = r.assigned
        /\ mdl' = r.mdl
        /\ pc' = r.end
        /\ res' = <<>>

FromIndexed ==
    /\ pc = "start"
    /\ \E n \in 0..MaxBlocks :
         \E blocks \in [1..n -> IndexedPayloads], inds \in [1..n -> IndexVals] :
            CallFromIndexed(blocks, inds)
    /\ UNCHANGED <<file, loader, rows, csvBlocks, csvInds>>

FromUnindexed ==
    /\ pc = "start"
    /\ \E blocks \in SeqsUpTo(UnindexedPayloads, MaxBlocks) : CallFromUnindexed(blocks)
    /\ UNCHANGED <<file, loader, rows, csvBlocks, csvInds>>

(***************************************************************************)
(* Dependence strategies.                                                  *)
(***************************************************************************)
\* num::clamp(x, lo, hi)
Clamp(x, lo, hi) == IF x < lo THEN lo ELSE IF x > hi THEN hi ELSE x

\* num::clamp(ind.i as i64 - 1, 0, shape()[0] as i64) as usize
i_low(arr, ind) == Clamp(ind.i - 1, 0, arr.shape[1])

\* the upper bound clamped one short: the range then ends at the center
i_high_short(arr, ind) == Clamp(ind.i + 1, 0, arr.shape[1])

\* num::clamp(ind.i + 2, 0, shape()[0])
i_high(arr, ind) == Clamp(ind.i + 2, 0, arr.shape[1])

\* num::clamp(ind.j as i64 - 1, 0, shape()[1] as i64) as usize
j_low(arr, ind) == Clamp(ind.j - 1, 0, arr.shape[2])

\* num::clamp(ind.j + 2, 0, shape()[1])
j_high(arr, ind) == Clamp(ind.j + 2, 0, arr.shape[2])

\* for i in il..ih { for j in jl..jh { inds.push(BlockIndex { i, j, k }) } }
Footprint(il, ih, jl, jh, k) ==
    IF ih <= il \/ jh <= jl THEN <<>>
    ELSE [n \in 1..((ih - il) * (jh - jl)) |->
            BlockIndex(il + ((n - 1) \div (jh - jl)), jl + ((n - 1) % (jh - jl)), k)]

FootprintOf(arr, ind, k) ==
    Footprint(i_low(arr, ind), i_high(arr, ind), j_low(arr, ind), j_high(arr, ind), k)

\* SquarePreds with the layer of SquareSuccs (the offset PREDS = -1)
SquarePredsAbove(arr, ind) ==
    IF ind.k = 0 THEN <<>> ELSE FootprintOf(arr, ind, ind.k - 1)

\* SquarePreds with the vertical guard off by one (k > dim instead of k >= dim)
SquarePredsLooseGuard(arr, ind) ==
    IF ind.k + 1 > arr.shape[3] THEN <<>> ELSE FootprintOf(arr, ind, ind.k + 1)

\* <SquarePreds as BlockDependenceInterface>::inds
SquarePreds(arr, ind) ==
    LET k == ind.k + 1
    IN  IF k >= arr.shape[3] THEN <<>> ELSE FootprintOf(arr, ind, k)

\* SquareSuccs without the center column of the layer above
SquareSuccsNoCenter(arr, ind) ==
    IF ind.k = 0 THEN <<>>
    ELSE SelectSeq(FootprintOf(arr, ind, ind.k - 1),
                   LAMBDA c : ~(c.i = ind.i /\ c.j = ind.j))

\* <SquareSuccs as BlockDependenceInterface>::inds
SquareSuccs(arr, ind) ==
    IF ind.k = 0 THEN <<>>
    ELSE LET k == ind.k - 1
         IN  FootprintOf(arr, ind, k)

\* SquareAdj without the occupancy filter
SquareAdjUnfiltered(arr, ind) == FootprintOf(arr, ind, ind.k)

\* <SquareAdj as BlockDependenceInterface>::inds
SquareAdj(arr, ind) ==
    LET k == ind.k
    IN  SelectSeq(FootprintOf(arr, ind, k), LAMBDA c : block(arr, c) # None)

Strategies == {"SquarePreds", "SquareSuccs", "SquareAdj"}

\* BlockModel::dependent_block_inds
dependent_block_inds(arr, ind, bdi) ==
    CASE bdi = "SquarePreds" -> SquarePreds(arr, ind)
      [] bdi = "SquareSuccs" -> SquareSuccs(arr, ind)
      [] bdi = "SquareAdj" -> SquareAdj(arr, ind)

\* BlockModel::block_mut, and the write through the reference it returns
block_mut(arr, ind, opt) == SetCell(arr, ind, opt)

(***************************************************************************)
(* Operations on a built model.                                            *)
(***************************************************************************)
NCells(arr) == arr.shape[1] * arr.shape[2] * arr.shape[3]

\* what a caller stores through block_mut: None, or some payload
WriteVals == {None, Some(Payload(1))}

\* the indices a model is read, written and queried at
QueryInds == {BlockIndex(i, j, k) : i \in 0..(MaxDim - 1), j \in 0..(MaxDim - 1),
                                   k \in 0..(MaxDim - 1)}

\* the state after construction: a model built by from_indexed from one block,
\* which lies at the far corner of the grid
InitBuilt ==
    /\ \E ind \in QueryInds :
         /\ inBlocks = <<Payload(1)>>
         /\ inInds = <<ind>>
         /\ mdl = from_indexed(inBlocks, inInds)
    /\ pc = "built"
    /\ ctor = "from_indexed"
    /\ genIndsCalled = FALSE
    /\ assigned = <<>>
    /\ res = <<>>
    /\ NoCsv

BlockMut ==
    /\ pc = "built"
    /\ NCells(mdl) <= MaxCells
    /\ \E ind \in QueryInds, v \in WriteVals :
         /\ InGrid(mdl, ind)
         /\ mdl' = block_mut(mdl, ind, v)
    /\ res' = <<>>
    /\ UNCHANGED <<pc, ctor, inBlocks, inInds, genIndsCalled, assigned, file, loader, rows, csvBlocks, csvInds>>

BlockRead ==
    /\ pc = "built"
    /\ \E ind \in QueryInds :
         /\ InGrid(mdl, ind)
         /\ res' = <<[op |-> "block", bdi |-> "", ind |-> ind, val |-> block(mdl, ind),
                     inds |-> <<>>]>>
    /\ UNCHANGED <<pc, ctor, inBlocks, inInds, genIndsCalled, assigned, mdl, file, loader, rows, csvBlocks, csvInds>>

DependentBlockInds ==
    /\ pc = "built"
    /\ \E ind \in QueryInds, bdi \in Strategies :
         /\ InGrid(mdl, ind)
         /\ res' = <<[op |-> "dependent_block_inds", bdi |-> bdi, ind |-> ind, val |-> None,
                     inds |-> dependent_block_inds(mdl, ind, bdi)]>>
    /\ UNCHANGED <<pc, ctor, inBlocks, inInds, genIndsCalled, assigned, mdl, file, loader, rows, csvBlocks, csvInds>>

(***************************************************************************)
(* The csv loaders.                                                        *)
(***************************************************************************)
\* a row that does not deserialize into a B
RowErr == <<>>

CsvPayloads ==
    {Block(1, BlockCoordinates(0, 0, 0), UnitSize, BlockIndex(0, 0, 0)),
     Block(2, BlockCoordinates(1, 0, 0), UnitSize, BlockIndex(1, 0, 0)),
     Block(3, BlockCoordinates(1, 0, 0), BlockSize(3, 1, 1), BlockIndex(0, 1, 0))}

RowVals == {Some(b) : b \in CsvPayloads} \cup {RowErr}

Files == [open_ok : BOOLEAN, rows : SeqsUpTo(RowVals, MaxRows)]

Loaders == {"from_unindexed_csv", "from_indexed_csv"}

\* the loop body with a failed row skipped instead of returned
ReadRowSkipErr(l, blocks, inds, result) ==
    IF result = RowErr
    THEN [end |-> "reading", blocks |-> blocks, inds |-> inds]
    ELSE [end |-> "reading", blocks |-> Append(blocks, result[1]),
          inds |-> IF l = "from_indexed_csv" THEN Append(inds, result[1].index) ELSE inds]

\* the body of `for result in rdr.deserialize()`: `result?`, then the pushes
ReadRow(l, blocks, inds, result) ==
    IF result = RowErr
    THEN [end |-> "err", blocks |-> <<>>, inds |-> <<>>]
    ELSE [end |-> "reading", blocks |-> Append(blocks, result[1]),
          inds |-> IF l = "from_indexed_csv" THEN Append(inds, result[1].index) ELSE inds]

\* csv::Reader::from_path(file)?
CsvOpen ==
    /\ pc = "start"
    /\ \E f \in Files, l \in Loaders :
         /\ file' = f
         /\ loader' = l
         /\ IF f.open_ok
            THEN pc' = "reading" /\ rows' = f.rows
            ELSE pc' = "err" /\ rows' = <<>>
    /\ UNCHANGED <<ctor, inBlocks, inInds, genIndsCalled, assigned, mdl, res, csvBlocks, csvInds>>

CsvRow ==
    /\ pc = "reading"
    /\ rows # <<>>
    /\ LET r == ReadRow(loader, csvBlocks, csvInds, Head(rows))
       IN  /\ pc' = r.end
           /\ csvBlocks' = r.blocks
           /\ csvInds' = r.inds
    /\ rows' = Tail(rows)
    /\ UNCHANGED <<ctor, inBlocks, inInds, genIndsCalled, assigned, mdl, res, file, loader>>

\* Ok(Self::from_unindexed(blocks)) / Ok(Self::from_indexed(blocks, inds))
CsvFinish ==
    /\ pc = "reading"
    /\ rows = <<>>
    /\ IF loader = "from_unindexed_csv"
       THEN CallFromUnindexed(csvBlocks)
       ELSE CallFromIndexed(csvBlocks, csvInds)
    /\ csvBlocks' = <<>>
    /\ csvInds' = <<>>
    /\ UNCHANGED <<file, loader, rows>>

(***************************************************************************)
(* Specifications.                                                         *)
(***************************************************************************)
SpecFromIndexed == InitStart /\ [][FromIndexed]_vars

SpecFromUnindexed == InitStart /\ [][FromUnindexed]_vars

SpecCsv == InitStart /\ [][CsvOpen \/ CsvRow \/ CsvFinish]_vars

Init == InitBuilt

Next == BlockMut \/ BlockRead \/ DependentBlockInds

Spec == Init /\ [][Next]_vars

(***************************************************************************)
(* Properties.                                                             *)
(***************************************************************************)
Range(s) == {s[n] : n \in 1..Len(s)}

GridInds(arr) ==
    {BlockIndex(i, j, k) : i \in 0..(arr.shape[1] - 1), j \in 0..(arr.shape[2] - 1),
                           k \in 0..(arr.shape[3] - 1)}

Positions(inds, ind) == {n \in 1..Len(inds) : inds[n] = ind}

Last(S) == CHOOSE n \in S : \A m \in S : m <= n

\* C1: after from_indexed on equal-length (blocks, indices), every cell of the
\* grid holds the payload of the last input position with that index, and is
\* absent when no position has it.
C1_LastWriteWins ==
    (pc = "built" /\ ctor = "from_indexed" /\ Len(inBlocks) = Len(inInds)) =>
        \A ind \in GridInds(mdl) :
            LET P == Positions(inInds, ind)
            IN  IF P = {} THEN block(mdl, ind) = None
                ELSE block(mdl, ind) = Some(inBlocks[Last(P)])

\* a batch with one index given twice, to two different payloads, and an index
\* of the grid no position has
C1_Witness ==
    /\ pc = "built" /\ ctor = "from_indexed" /\ Len(inBlocks) = 2
    /\ inInds[1] = inInds[2] /\ inBlocks[1] # inBlocks[2]
    /\ block(mdl, inInds[1]) = Some(inBlocks[2])
    /\ \E ind \in GridInds(mdl) : block(mdl, ind) = None

\* the common block size and the origin of a batch
BatchSize == inBlocks[1].size

BatchOrigin == Origin(inBlocks, Len(inBlocks))

\* index * size + origin = coordinates on each axis, in exact arithmetic
RoundTripExact(b) ==
    /\ b.index.i * BatchSize.x_size + BatchOrigin.x = b.coords.x
    /\ b.index.j * BatchSize.y_size + BatchOrigin.y = b.coords.y
    /\ b.index.k * BatchSize.z_size + BatchOrigin.z = b.coords.z

\* the same with every operation rounded to f32
RoundTripF32(b) ==
    /\ F32Round(F32Round(F32Round(b.index.i) * BatchSize.x_size) + BatchOrigin.x) = b.coords.x
    /\ F32Round(F32Round(F32Round(b.index.j) * BatchSize.y_size) + BatchOrigin.y) = b.coords.y
    /\ F32Round(F32Round(F32Round(b.index.k) * BatchSize.z_size) + BatchOrigin.z) = b.coords.z

\* C2: when from_unindexed succeeds, every stored payload's index maps back to
\* its original coordinates through index * size + origin.
C2_RoundTrip ==
    (pc = "built" /\ ctor = "from_unindexed") =>
        \A ind \in DOMAIN mdl.data :
            RoundTripExact(mdl.data[ind]) \/ RoundTripF32(mdl.data[ind])

Full2x2x2 ==
    /\ mdl.shape = <<2, 2, 2>>
    /\ \A ind \in GridInds(mdl) : block(mdl, ind) # None

Queried(bdi, ind) ==
    /\ res # <<>>
    /\ res[1].op = "dependent_block_inds"
    /\ res[1].bdi = bdi
    /\ res[1].ind = ind

QueriedBy(bdi) == res # <<>> /\ res[1].op = "dependent_block_inds" /\ res[1].bdi = bdi

Layer0 == {BlockIndex(0, 0, 0), BlockIndex(1, 0, 0), BlockIndex(0, 1, 0), BlockIndex(1, 1, 0)}

\* C3 as stated: on the full 2x2x2 grid, Predecessors of (0,0,1) are exactly
\* the four indices of layer 0.
C3_Original ==
    (Full2x2x2 /\ Queried("SquarePreds", BlockIndex(0, 0, 1))) =>
        Len(res[1].inds) = 4 /\ Range(res[1].inds) = Layer0

\* C3 amended: on the full 2x2x2 grid, Predecessors of (0,0,1) are empty (layer
\* k + 1 = 2 is outside the grid); the four indices of layer 0, in row-major
\* order, are the Successors of (0,0,1).
C3_Amended ==
    /\ (Full2x2x2 /\ Queried("SquarePreds", BlockIndex(0, 0, 1))) => res[1].inds = <<>>
    /\ (Full2x2x2 /\ Queried("SquareSuccs", BlockIndex(0, 0, 1))) =>
          res[1].inds = <<BlockIndex(0, 0, 0), BlockIndex(0, 1, 0),
                          BlockIndex(1, 0, 0), BlockIndex(1, 1, 0)>>

C3_Witness == Full2x2x2 /\ Queried("SquarePreds", BlockIndex(0, 0, 1))

\* C4: Predecessors of an index on the largest layer are empty, Successors of
\* an index on layer 0 are empty, whatever i, j and the occupancy.
C4_EmptyAtVerticalEdge ==
    /\ (QueriedBy("SquarePreds") /\ res[1].ind.k = mdl.shape[3] - 1) => res[1].inds = <<>>
    /\ (QueriedBy("SquareSuccs") /\ res[1].ind.k = 0) => res[1].inds = <<>>

\* Predecessors asked on the top layer of a model of two layers, above an
\* occupied cell
C4_Witness ==
    /\ QueriedBy("SquarePreds")
    /\ mdl.shape[3] = 2
    /\ res[1].ind.k = 1
    /\ block(mdl, [res[1].ind EXCEPT !.k = 0]) # None

\* C5: Adjacency returns only occupied cells, all on the center's layer, and
\* the center itself whenever it is occupied.
C5_Adjacency ==
    QueriedBy("SquareAdj") =>
        /\ \A c \in Range(res[1].inds) : block(mdl, c) # None /\ c.k = res[1].ind.k
        /\ block(mdl, res[1].ind) # None => res[1].ind \in Range(res[1].inds)

\* after writes: an occupied center with an occupied and an absent neighbour
\* on its layer
C5_Witness ==
    /\ QueriedBy("SquareAdj")
    /\ mdl # from_indexed(inBlocks, inInds)
    /\ block(mdl, res[1].ind) # None
    /\ Len(res[1].inds) >= 2
    /\ \E c \in GridInds(mdl) :
         /\ c.k = res[1].ind.k
         /\ block(mdl, c) = None

NonIntegral(b) ==
    \/ (b.coords.x - BatchOrigin.x) % BatchSize.x_size # 0
    \/ (b.coords.y - BatchOrigin.y) % BatchSize.y_size # 0
    \/ (b.coords.z - BatchOrigin.z) % BatchSize.z_size # 0

UniformSize == \A n \in 1..Len(inBlocks) : inBlocks[n].size = inBlocks[1].size

\* C6: a uniformly sized batch with a coordinate that is no exact multiple of
\* the size away from the origin ends in the misaligned-coordinate failure,
\* and no model is built.
C6_MisalignedFails ==
    (/\ ctor = "from_unindexed"
     /\ inBlocks # <<>>
     /\ UniformSize
     /\ \E n \in 1..Len(inBlocks) : NonIntegral(inBlocks[n])) =>
        pc = "panic_misaligned" /\ mdl = NoModel

\* C7: a batch with two different sizes ends in the inconsistent-size failure,
\* with no index computed or assigned and no model built.
C7_InconsistentSizeFails ==
    (ctor = "from_unindexed" /\ ~UniformSize) =>
        pc = "panic_size" /\ ~genIndsCalled /\ assigned = <<>> /\ mdl = NoModel

\* two blocks of different sizes that both lie on the grid of the first one
C7_Witness ==
    /\ ctor = "from_unindexed"
    /\ pc = "panic_size"
    /\ Len(inBlocks) = 2
    /\ inBlocks[1].size # inBlocks[2].size
    /\ gen_inds(inBlocks, BatchOrigin, BatchSize) # None

FileBad == ~file.open_ok \/ \E n \in 1..Len(file.rows) : file.rows[n] = RowErr

\* C8: a csv load calls the constructor only after every row was read, and a
\* source that fails to open or a row that fails to deserialize ends the load
\* in a returned error, with no constructor called and no model.
C8_CsvErrors ==
    loader # "none" =>
        /\ ctor # "none" =>
              /\ ~FileBad
              /\ rows = <<>>
              /\ inBlocks = [n \in 1..Len(file.rows) |-> file.rows[n][1]]
              /\ ctor = (IF loader = "from_indexed_csv" THEN "from_indexed" ELSE "from_unindexed")
        /\ FileBad => pc \in {"reading", "err"}
        /\ (FileBad /\ rows = <<>>) => pc = "err"
        /\ pc = "err" => FileBad /\ ctor = "none" /\ mdl = NoModel

\* a good row read and kept, then a row that fails
C8_Witness ==
    /\ loader # "none"
    /\ pc = "err"
    /\ Len(file.rows) = 2
    /\ file.rows[1] # RowErr
    /\ file.rows[2] = RowErr

Abs(x) == IF x < 0 THEN -x ELSE x

\* the footprint of center c on layer k: the horizontal neighbours inside the grid
FootprintSet(arr, c, k) ==
    {d \in GridInds(arr) : d.k = k /\ Abs(d.i - c.i) <= 1 /\ Abs(d.j - c.j) <= 1}

\* strictly increasing in (i, j): row-major, each index once
RowMajor(s) ==
    \A n \in 1..(Len(s) - 1) :
        s[n].i < s[n + 1].i \/ (s[n].i = s[n + 1].i /\ s[n].j < s[n + 1].j)

\* C9: when the target layer exists, Predecessors (k + 1) and Successors
\* (k - 1) return exactly the footprint inside the grid, each index once, in
\* row-major order, at most 9, occupied or not.
C9_Footprint ==
    /\ (QueriedBy("SquarePreds") /\ res[1].ind.k + 1 < mdl.shape[3]) =>
          /\ Range(res[1].inds) = FootprintSet(mdl, res[1].ind, res[1].ind.k + 1)
          /\ RowMajor(res[1].inds)
          /\ Len(res[1].inds) <= 9
    /\ (QueriedBy("SquareSuccs") /\ res[1].ind.k >= 1) =>
          /\ Range(res[1].inds) = FootprintSet(mdl, res[1].ind, res[1].ind.k - 1)
          /\ RowMajor(res[1].inds)
          /\ Len(res[1].inds) <= 9

\* an inner center whose 3x3 footprint on the next layer has an absent cell
C9_Witness ==
    /\ QueriedBy("SquarePreds")
    /\ Len(res[1].inds) = 9
    /\ \E c \in Range(res[1].inds) : block(mdl, c) = None

\* C10: b is a Predecessor of a exactly when a is a Successor of b, for all
\* indices a, b of the grid.
C10_Converse ==
    /\ QueriedBy("SquarePreds") =>
          \A b \in GridInds(mdl) :
              b \in Range(res[1].inds) <=> res[1].ind \in Range(SquareSuccs(mdl, b))
    /\ QueriedBy("SquareSuccs") =>
          \A a \in GridInds(mdl) :
              res[1].ind \in Range(SquarePreds(mdl, a)) <=> a \in Range(res[1].inds)

C10_Witness ==
    /\ QueriedBy("SquareSuccs")
    /\ Len(res[1].inds) >= 2
    /\ \E a \in Range(res[1].inds) : res[1].ind \in Range(SquarePreds(mdl, a))

====
